---- MODULE Spec2Model ----
(***************************************************************************)
(* Model of src/src/sampling.py: the straight-ray travel-time library      *)
(* (SampleAlongLine, IsInMapRegion, CalculateTimeOfFlight).                *)
(*                                                                         *)
(* numpy float64 values are modelled as extended rationals <<n, d>>:       *)
(*   d > 0   the finite value n/d in lowest terms,                         *)
(*   <<1,0>> +inf, <<-1,0>> -inf, <<0,0>> not-a-number.                    *)
(* Arithmetic is exact (no rounding error of the 53-bit mantissa); the     *)
(* IEEE special values, which the code produces on division by zero and    *)
(* on the mean of an empty array, are kept.  Square roots are taken only   *)
(* of values whose root is rational; the inputs are drawn accordingly.     *)
(***************************************************************************)
EXTENDS Integers, Sequences, FiniteSets

VARIABLES
    called,          \* the function the caller has last called, or "none"
    result,          \* what that call returned or raised
    origin,          \* SampleAlongLine: the caller's origin array
    direction,       \* SampleAlongLine: the caller's direction array
    step_size,       \* SampleAlongLine: step_size
    num_steps,       \* SampleAlongLine: num_steps
    point,           \* IsInMapRegion: point
    map_lims,        \* IsInMapRegion: map_lims
    point_query,     \* CalculateTimeOfFlight: point_query array
    point_origin,    \* CalculateTimeOfFlight: point_origin array
    speed_map,       \* CalculateTimeOfFlight: speed_map array
    steps_per_pixel  \* CalculateTimeOfFlight: steps_per_pixel

vars == <<called, result, origin, direction, step_size, num_steps, point,
          map_lims, point_query, point_origin, speed_map, steps_per_pixel>>

-----------------------------------------------------------------------------
(* Bounds of the model.                                                    *)

\* the speed fields are FieldNX x FieldNY pixels (rank 2) or FieldNX (rank 1)
FieldNX == 4
FieldNY == 5
\* coordinates of the end points reach this many pixels outside the field
Margin == 1
\* steps_per_pixel ranges over 1..MaxStepsPerPixel and the default
MaxStepsPerPixel == 2
\* num_steps ranges over 0..MaxNumSteps
MaxNumSteps == 3
\* step_size ranges over 1..MaxStepSize (and their halves)
MaxStepSize == 2
\* coordinates of point: -MaxCoord..MaxCoord
MaxCoord == 2
\* coordinates of direction: -MaxDirection..MaxDirection
MaxDirection == 4

\* the default of steps_per_pixel
DefaultStepsPerPixel == 8

-----------------------------------------------------------------------------
(* float64 arithmetic.                                                     *)

Abs(x) == IF x < 0 THEN -x ELSE x

Sign(x) == IF x > 0 THEN 1 ELSE IF x < 0 THEN -1 ELSE 0

RECURSIVE GCD(_, _)
GCD(a, b) == IF b = 0 THEN a ELSE GCD(b, a % b)

\* the float n/d: lowest terms, the sign in the numerator; x/0 is an infinity
\* or, for 0/0, not-a-number
Canon(n, d) ==
    IF d = 0 THEN <<Sign(n), 0>>
    ELSE LET g == GCD(Abs(n), Abs(d))
             s == IF d < 0 THEN -1 ELSE 1
         IN  <<(s * n) \div g, (s * d) \div g>>

R(n) == <<n, 1>>

Zero == R(0)

NaN == <<0, 0>>

IsNaN(x) == x = NaN

IsFinite(x) == x[2] > 0

FNeg(x) == <<-x[1], x[2]>>

FAdd(x, y) ==
    IF x[2] = 0 /\ y[2] = 0
    THEN (IF x = y THEN x ELSE NaN)
    ELSE Canon(x[1] * y[2] + y[1] * x[2], x[2] * y[2])

FSub(x, y) == FAdd(x, FNeg(y))

FAbs(x) == <<Abs(x[1]), x[2]>>

FMul(x, y) == Canon(x[1] * y[1], x[2] * y[2])

\* 1/x: 1/0 is +inf (the zeros of the model are positive), 1/inf is 0
Recip(x) ==
    IF x[2] = 0 THEN (IF x[1] = 0 THEN NaN ELSE Zero)
    ELSE Canon(x[2], x[1])

FDiv(x, y) == FMul(x, Recip(y))

\* comparisons: false whenever an operand is not-a-number
FLe(x, y) ==
    /\ ~IsNaN(x) /\ ~IsNaN(y)
    /\ IF x[2] = 0 /\ y[2] = 0 THEN x[1] <= y[1]
       ELSE IF x[2] = 0 THEN x[1] < 0
       ELSE IF y[2] = 0 THEN y[1] > 0
       ELSE x[1] * y[2] <= y[1] * x[2]

FGe(x, y) == FLe(y, x)

FLt(x, y) == FLe(x, y) /\ x # y

\* the sum of s[lo..hi], by halves (numpy sums pairwise)
RECURSIVE FSumRange(_, _, _)
FSumRange(s, lo, hi) ==
    IF lo > hi THEN Zero
    ELSE IF lo = hi THEN s[lo]
    ELSE LET mid == (lo + hi) \div 2
         IN  FAdd(FSumRange(s, lo, mid), FSumRange(s, mid + 1, hi))

\* ndarray.sum(): 0.0 for an empty array
FSum(s) == FSumRange(s, 1, Len(s))

\* ndarray.mean(): sum / count, which is 0.0/0 = nan for an empty array
FMean(s) == FDiv(FSum(s), R(Len(s)))

\* the integer square root of a natural number
ISqrt(n) == CHOOSE r \in 0..n : r * r <= n /\ (r + 1) * (r + 1) > n

IsSquare(x) ==
    \/ x[2] = 0
    \/ /\ x[1] >= 0
       /\ ISqrt(x[1]) * ISqrt(x[1]) = x[1]
       /\ ISqrt(x[2]) * ISqrt(x[2]) = x[2]

\* np.sqrt on a value whose root is rational; nan and +inf are fixed points
FSqrt(x) == IF x[2] = 0 THEN x ELSE <<ISqrt(x[1]), ISqrt(x[2])>>

\* np.round() followed by .astype(int), on a finite value: round half to even
RoundInt(x) ==
    LET fl  == x[1] \div x[2]
        rem == x[1] - fl * x[2]
    IN  IF 2 * rem < x[2] THEN fl
        ELSE IF 2 * rem > x[2] THEN fl + 1
        ELSE IF fl % 2 = 0 THEN fl ELSE fl + 1

\* the squared Euclidean length of a vector
SumSquares(v) == FSum([j \in 1..Len(v) |-> FMul(v[j], v[j])])

\* np.linalg.norm of a 1-D array
Norm(v) == FSqrt(SumSquares(v))

Min(a, b) == IF a <= b THEN a ELSE b

-----------------------------------------------------------------------------
(* IsInMapRegion                                                           *)

Ok(v) == [status |-> "ok", value |-> v]

Raised(e) == [status |-> e]

\* the variant with open intervals: the bounds themselves count as outside
IsInMapRegionStrict(pt, lims) ==
    \A i \in 1..Min(Len(pt), Len(lims)) :
        FLt(lims[i][1], pt[i]) /\ FLt(pt[i], lims[i][2])

\* all() over zip( point, map_lims ): zip stops at the shorter of the two
IsInMapRegion(pt, lims) ==
    \A i \in 1..Min(Len(pt), Len(lims)) :
        FGe(pt[i], lims[i][1]) /\ FLe(pt[i], lims[i][2])

-----------------------------------------------------------------------------
(* SampleAlongLine                                                         *)

\* direction /= np.linalg.norm( direction ): the quotient, element by element
Normalized(d) == [j \in 1..Len(d) |-> FDiv(d[j], Norm(d))]

\* origin + n*step_size*direction
LocationAt(o, unit, s, n) ==
    [j \in 1..Len(o) |-> FAdd(o[j], FMul(FMul(R(n), s), unit[j]))]

\* the list comprehension over range( num_steps ); entry n+1 is location n
Locations(o, unit, s, k) == [i \in 1..k |-> LocationAt(o, unit, s, i - 1)]

\* The call: what it returns or raises (ret) and what it leaves in the caller's
\* direction array, which the in-place division has overwritten.  The returned
\* (D, k) array is modelled by its k columns.  np.concatenate raises ValueError
\* on an empty list.
SampleAlongLine(o, d, s, k) ==
    LET unit == Normalized(d)
    IN  [direction |-> unit,
         ret |-> IF k = 0 THEN Raised("ValueError")
                 ELSE Ok(Locations(o, unit, s, k))]

-----------------------------------------------------------------------------
(* CalculateTimeOfFlight                                                   *)

\* the index tuples of an array of the given shape
Indices(shape) ==
    IF Len(shape) = 1 THEN {<<a>> : a \in 0..(shape[1] - 1)}
    ELSE {<<a, b>> : a \in 0..(shape[1] - 1), b \in 0..(shape[2] - 1)}

\* point_query - point_origin
Displacement(q, o) == [j \in 1..Len(q) |-> FSub(q[j], o[j])]

\* displacement / distance
Direction(disp, dist) == [j \in 1..Len(disp) |-> FDiv(disp[j], dist)]

\* np.round( distance*steps_per_pixel ).astype( int )
NumSamples(dist, spp) == RoundInt(FMul(dist, R(spp)))

\* np.linspace( 0., stop, num ): num offsets, the last one equal to stop
Linspace(stop, num) ==
    [i \in 1..num |->
        IF num = 1 THEN Zero ELSE FMul(R(i - 1), FDiv(stop, R(num - 1)))]

\* steps[1:] - steps[:-1]
Diffs(steps) ==
    IF Len(steps) = 0 THEN <<>>
    ELSE [i \in 1..(Len(steps) - 1) |-> FSub(steps[i + 1], steps[i])]

\* ( steps[1:] - steps[:-1] ).mean()
MeanSpacing(steps) == FMean(Diffs(steps))

\* the rounded sample coordinates: column i of samples
Samples(steps, dir, o) ==
    [i \in 1..Len(steps) |->
        [j \in 1..Len(o) |-> RoundInt(FAdd(FMul(steps[i], dir[j]), o[j]))]]

\* an index numpy accepts on an axis of the given size: -size..size-1
IndexOk(idx, shape) ==
    \A j \in 1..Len(shape) : -shape[j] <= idx[j] /\ idx[j] < shape[j]

\* a negative index counts from the end of the axis
WrapIndex(idx, shape) ==
    [j \in 1..Len(shape) |-> IF idx[j] < 0 THEN idx[j] + shape[j] ELSE idx[j]]

\* speed_map[ *samples ]
Speeds(sm, samples) ==
    [i \in 1..Len(samples) |-> sm.data[WrapIndex(samples[i], sm.shape)]]

\* np.array( [ dx / sp for sp in speeds ] )
Dt(dx, speeds) == [i \in 1..Len(speeds) |-> FDiv(dx, speeds[i])]

\* the variant that takes dx out of the sum: dx * sum( 1/sp ), which is
\* not-a-number where dx is, also over no samples at all
TotalTimeFactored(dx, speeds) ==
    FMul(dx, FSum([i \in 1..Len(speeds) |-> FDiv(R(1), speeds[i])]))

\* dt.sum()
TotalTime(dx, speeds) == FSum(Dt(dx, speeds))

CalculateTimeOfFlight(q, o, sm, spp) ==
    IF ~(Len(q) = Len(o) /\ Len(o) = Len(sm.shape))
    THEN Raised("AssertionError")
    ELSE LET displacement == Displacement(q, o)
             distance     == Norm(displacement)
             dir          == Direction(displacement, distance)
             steps        == Linspace(distance, NumSamples(distance, spp))
             dx           == MeanSpacing(steps)
             samples      == Samples(steps, dir, o)
         IN  IF \E i \in 1..Len(samples) : ~IndexOk(samples[i], sm.shape)
             THEN Raised("IndexError")
             ELSE LET speeds == Speeds(sm, samples)
                  IN  [status |-> "ok",
                       total_time |-> TotalTime(dx, speeds),
                       speeds |-> speeds]

-----------------------------------------------------------------------------
(* The arguments the caller builds.                                        *)

None == <<>>

\* vectors with integer coordinates in lo..hi
Grid1(lo, hi) == {<<R(a)>> : a \in lo..hi}

Grid2(lox, hix, loy, hiy) == {<<R(a), R(b)>> : a \in lox..hix, b \in loy..hiy}

\* 1-D points on the half-pixel grid
HalfGrid1(lo, hi) == {<<Canon(a, 2)>> : a \in (2 * lo)..(2 * hi)}

\* the vectors of a set whose Euclidean length is rational
RationalLength(S) == {v \in S : IsSquare(SumSquares(v))}

Origins == Grid2(-1, 1, -1, 1)

Directions == RationalLength(Grid2(-MaxDirection, MaxDirection,
                                   -MaxDirection, MaxDirection))

StepSizes == {R(s) : s \in 1..MaxStepSize} \cup {Canon(s, 2) : s \in 1..MaxStepSize}

Points == Grid1(-MaxCoord, MaxCoord)
              \cup Grid2(-MaxCoord, MaxCoord, -MaxCoord, MaxCoord)

Intervals == {<<R(a), R(b)>> : a \in -1..1, b \in -1..1}

MapLimits == {<<i>> : i \in Intervals} \cup {<<i, j>> : i \in Intervals, j \in Intervals}

Shape1 == <<FieldNX>>

Shape2 == <<FieldNX, FieldNY>>

ConstantField(shape, c) == [shape |-> shape, data |-> [idx \in Indices(shape) |-> c]]

\* two media: one speed where the first index is below x, another beyond
LayeredField(shape, x, c1, c2) ==
    [shape |-> shape,
     data |-> [idx \in Indices(shape) |-> IF idx[1] < x THEN c1 ELSE c2]]

\* a field with one cell set to v
WithCell(f, idx, v) == [f EXCEPT !.data[idx] = v]

Fields1 == {ConstantField(Shape1, R(2)),
            WithCell(ConstantField(Shape1, R(2)), <<1>>, Zero)}

Fields2 == {ConstantField(Shape2, R(2)),
            ConstantField(Shape2, R(3)),
            LayeredField(Shape2, 2, R(1), R(2)),
            WithCell(ConstantField(Shape2, R(2)), <<1, 1>>, Zero),
            WithCell(ConstantField(Shape2, R(2)), <<2, 1>>, R(-1))}

EndPoints1 == HalfGrid1(-Margin, FieldNX - 1 + Margin)

EndPoints2 == Grid2(-Margin, FieldNX - 1 + Margin, -Margin, FieldNY - 1 + Margin)

\* pairs of end points of the same rank at a rational distance
EndPointPairs ==
    {pr \in (EndPoints1 \X EndPoints1) \cup (EndPoints2 \X EndPoints2) :
        IsSquare(SumSquares(Displacement(pr[1], pr[2])))}

StepsPerPixel == (1..MaxStepsPerPixel) \cup {DefaultStepsPerPixel}

-----------------------------------------------------------------------------
(* The state machine: a caller that has built the arguments of one of the  *)
(* three functions and calls it, any number of times, on the same objects. *)

NoSampleArgs ==
    origin = None /\ direction = None /\ step_size = None /\ num_steps = 0

NoRegionArgs == point = None /\ map_lims = None

NoFlightArgs ==
    /\ point_query = None /\ point_origin = None
    /\ speed_map = None /\ steps_per_pixel = 0

InitSample ==
    /\ origin \in Origins
    /\ direction \in Directions
    /\ step_size \in StepSizes
    /\ num_steps \in 0..MaxNumSteps
    /\ NoRegionArgs /\ NoFlightArgs

InitRegion ==
    /\ point \in Points
    /\ map_lims \in MapLimits
    /\ NoSampleArgs /\ NoFlightArgs

InitFlight ==
    /\ \E pr \in EndPointPairs : point_query = pr[1] /\ point_origin = pr[2]
    /\ speed_map \in Fields1 \cup Fields2
    /\ steps_per_pixel \in StepsPerPixel
    /\ NoSampleArgs /\ NoRegionArgs

Init ==
    /\ called = "none"
    /\ result = None
    /\ (InitSample \/ InitRegion \/ InitFlight)

SampleAlongLineCall ==
    /\ direction # None
    /\ LET r == SampleAlongLine(origin, direction, step_size, num_steps)
       IN  /\ direction' = r.direction
           /\ result' = r.ret
    /\ called' = "SampleAlongLine"
    /\ UNCHANGED <<origin, step_size, num_steps, point, map_lims, point_query,
                   point_origin, speed_map, steps_per_pixel>>

IsInMapRegionCall ==
    /\ point # None
    /\ result' = Ok(IsInMapRegion(point, map_lims))
    /\ called' = "IsInMapRegion"
    /\ UNCHANGED <<origin, direction, step_size, num_steps, point, map_lims,
                   point_query, point_origin, speed_map, steps_per_pixel>>

CalculateTimeOfFlightCall ==
    /\ point_query # None
    /\ result' = CalculateTimeOfFlight(point_query, point_origin, speed_map,
                                       steps_per_pixel)
    /\ called' = "CalculateTimeOfFlight"
    /\ UNCHANGED <<origin, direction, step_size, num_steps, point, map_lims,
                   point_query, point_origin, speed_map, steps_per_pixel>>

Next == SampleAlongLineCall \/ IsInMapRegionCall \/ CalculateTimeOfFlightCall

Spec == Init /\ [][Next]_vars

-----------------------------------------------------------------------------
(* Properties.                                                             *)

Flight == "CalculateTimeOfFlight"

\* the rank of the speed field is the size of both end points
RanksAgree ==
    Len(point_query) = Len(point_origin)
        /\ Len(point_origin) = Len(speed_map.shape)

\* what CalculateTimeOfFlight derives from the caller's arguments
FlightDistance == Norm(Displacement(point_query, point_origin))

FlightCount == NumSamples(FlightDistance, steps_per_pixel)

FlightSteps == Linspace(FlightDistance, FlightCount)

FlightSamples ==
    Samples(FlightSteps,
            Direction(Displacement(point_query, point_origin), FlightDistance),
            point_origin)

\* C1: CalculateTimeOfFlight(p, p, field), with the rank of field that of p,
\* returns total_time = 0 and an empty sequence of sampled speeds: no error
\* and no not-a-number.
C1_ZeroDistance ==
    (called = Flight /\ RanksAgree /\ point_query = point_origin)
        => /\ result.status = "ok"
           /\ result.total_time = Zero
           /\ result.speeds = <<>>

\* the call with query = origin has returned; the point lies outside the field
C1_Witness ==
    /\ called = Flight /\ RanksAgree /\ point_query = point_origin
    /\ Len(point_query) = 2
    /\ point_query[1] = R(-1)
    /\ result.status = "ok"

\* every cell of the field holds the speed c
IsConstant(sm, c) == \A idx \in DOMAIN sm.data : sm.data[idx] = c

\* the point lies on the index grid's extent, 0..size-1 on every axis
InField(p, shape) ==
    \A j \in 1..Len(shape) : FLe(Zero, p[j]) /\ FLe(p[j], R(shape[j] - 1))

\* C2: on a field of constant speed c > 0 and for in-bounds end points at
\* distance L, total_time is within 3/(c*steps_per_pixel) of L/c and every
\* sampled speed is c.
C2_ConstantField ==
    \A c \in {R(2), R(3)} :
        (/\ called = Flight /\ RanksAgree
         /\ IsConstant(speed_map, c)
         /\ InField(point_query, speed_map.shape)
         /\ InField(point_origin, speed_map.shape))
            => /\ result.status = "ok"
               /\ IsFinite(result.total_time)
               /\ FLe(FAbs(FSub(result.total_time, FDiv(FlightDistance, c))),
                      FDiv(R(3), FMul(c, R(steps_per_pixel))))
               /\ \A i \in 1..Len(result.speeds) : result.speeds[i] = c

\* C3: the call fails whenever a rounded sample coordinate is below 0 or at or
\* above the size of the field on its axis.
C3_OutOfBounds ==
    (/\ called = Flight /\ RanksAgree
     /\ \E i \in 1..Len(FlightSamples) : \E j \in 1..Len(speed_map.shape) :
            FlightSamples[i][j] < 0 \/ FlightSamples[i][j] >= speed_map.shape[j])
        => result.status # "ok"

\* C4: the call never returns a result computed from a sampled speed that is
\* zero or negative.
C4_NonPositiveSpeed ==
    (called = Flight /\ result.status = "ok")
        => \A i \in 1..Len(result.speeds) : FLt(Zero, result.speeds[i])

\* the squared distance between two points
SquaredDistance(a, b) == SumSquares([j \in 1..Len(a) |-> FSub(a[j], b[j])])

\* C5: for a non-zero direction d, SampleAlongLine(o, d, s, k) returns exactly
\* k points, the n-th being o + n*s*unit(d), consecutive ones s apart, for
\* every k >= 0.
C5_ExactlyKPoints ==
    [][(called' = "SampleAlongLine" /\ FLt(Zero, Norm(direction)))
        => /\ result'.status = "ok"
           /\ Len(result'.value) = num_steps
           /\ \A n \in 1..num_steps :
                result'.value[n] =
                    [j \in 1..Len(origin) |->
                        FAdd(origin[j],
                             FDiv(FMul(FMul(R(n - 1), step_size), direction[j]),
                                  Norm(direction)))]
           /\ \A n \in 1..(num_steps - 1) :
                SquaredDistance(result'.value[n], result'.value[n + 1])
                    = FMul(step_size, step_size)]_vars

\* C6: SampleAlongLine called with a direction of zero length fails; it
\* returns no sequence of samples.
C6_DegenerateDirection ==
    [][(called' = "SampleAlongLine" /\ Norm(direction) = Zero)
        => result'.status # "ok"]_vars

\* C7: no call changes the objects it is given: origin, direction, point,
\* map limits, query, flight origin and speed field are after any step what
\* they were before.
C7_InputsUnchanged ==
    [][UNCHANGED <<origin, direction, point, map_lims, point_query,
                   point_origin, speed_map>>]_vars

\* p lies in the closed interval iv, by cross-multiplication of the fractions
InClosedInterval(p, iv) ==
    /\ iv[1][1] * p[2] <= p[1] * iv[1][2]
    /\ p[1] * iv[2][2] <= iv[2][1] * p[2]

\* C8: for a point and map limits of the same dimensionality, IsInMapRegion
\* is true exactly when every coordinate lies in the closed interval of its
\* axis, the two bounds included.
C8_ClosedIntervals ==
    (called = "IsInMapRegion" /\ Len(point) = Len(map_lims))
        => /\ result.status = "ok"
           /\ result.value =
                (\A i \in 1..Len(point) : InClosedInterval(point[i], map_lims[i]))

\* a 2-D point on the lower bound of one axis and the upper bound of the other,
\* these two different from the opposite bounds, found to be inside
C8_Witness ==
    /\ called = "IsInMapRegion"
    /\ Len(point) = 2 /\ Len(map_lims) = 2
    /\ point[1] = map_lims[1][1] /\ map_lims[1][1] # map_lims[1][2]
    /\ point[2] = map_lims[2][2] /\ map_lims[2][1] # map_lims[2][2]
    /\ result = Ok(TRUE)

\* C9: IsInMapRegion fails, and returns no boolean, when point and map_lims
\* differ in length.
C9_DimensionMismatch ==
    (called = "IsInMapRegion" /\ Len(point) # Len(map_lims))
        => result.status # "ok"

\* the terms dx/speed of the samples lo..hi
Terms(dx, speeds, lo, hi) ==
    IF hi < lo THEN <<>>
    ELSE [i \in 1..(hi - lo + 1) |-> FDiv(dx, speeds[lo + i - 1])]

\* C10: with k offsets of mean spacing dx, sampled_speeds holds k entries and
\* total_time is the sum of k-1 terms dx/speed, one per consecutive pair of
\* offsets (the pair's first sample, or its second).
C10_OneTermPerPair ==
    (called = Flight /\ result.status = "ok")
        => LET k  == FlightCount
               dx == MeanSpacing(FlightSteps)
           IN  /\ Len(result.speeds) = k
               /\ \/ result.total_time = FSum(Terms(dx, result.speeds, 1, k - 1))
                  \/ result.total_time = FSum(Terms(dx, result.speeds, 2, k))

====
